---- MODULE Spec2Model ----
(***************************************************************************)
(* Model of src/models/user.js (pagetty): the subscribe / subscribeToChannel *)
(* / unsubscribe workflows, getChannelUpdates and the post-remove hook of   *)
(* the User model, run by concurrent request handlers against a shared      *)
(* store of users, channels and lists (subscription records).               *)
(*                                                                         *)
(* Every asynchronous collaborator call is one step: the store applies the  *)
(* call atomically and the step then runs the callback up to the point      *)
(* where the next call is issued.  pc[p] names the call handler p waits on. *)
(* Invoking a method and getting the answer of its first call is one step.  *)
(* A handler whose callback has run (pc = "done") or whose callback threw   *)
(* (pc = "threw") is retired before anything else happens, so that a        *)
(* finished invocation is seen in exactly the store state it finished in.   *)
(***************************************************************************)
EXTENDS Integers, FiniteSets, Sequences, TLC

\* ---------------------------------------------------------------- bounds
MaxTime == 1
MaxFaults == 1

Procs == {"p1", "p2"}
Users == {"u1", "u2"}
Urls == {"a"}
\* The channel ids a caller may name: those the channels of Urls get, and
\* one more that matches no channel document.
ChanIds == 1..(Cardinality(Urls) + 1)
Times == 1..MaxTime
Watermarks == (0 - 1)..MaxTime

Null == "null"
\* `channel = null`: no channel document.
NoChannel == 0
\* items_added not set on a channel document.
NoTime == 0

\* Errors a workflow hands to its caller.
NoErr == "none"
ParseErr == "feed error"
StorageErr == "storage error"
ErrListCreateFromChannel == "Could not update user subscription."
ErrIncrement == "Could not increment subscribers."
ErrAlreadySubscribed == "You are already subscribed to this site."
ErrListCreate == "Could not subscribe to this site."

\* The watermark maps a client may send: maps from some channel ids to
\* watermarks.
StateMaps == UNION {[D -> Watermarks] : D \in SUBSET ChanIds}

\* The state argument of getChannelUpdates: given or not, and its map.
NoState == [given |-> FALSE, map |-> <<>>]
GivenState(m) == [given |-> TRUE, map |-> m]

\* The mail addresses of the accounts.
Mails == {"a@x.com", "b@x.com"}

\* The pass of a user document that has none (findOrCreate sets no pass).
NoPass == <<>>

\* hashPassword(id, pass): sha1 of 'lwearGYw3p29' + id + pass, a function of
\* the pair (id, pass) that tells different pairs apart.
HashPassword(id, plain) == <<id, plain>>

\* The verification code that signup draws (sha1 of the current date).
Token == "token"

\* The fields of an _id that names no stored user document.
NoAccount == [mail |-> Null, pass |-> NoPass, verification |-> Null, verified |-> FALSE]

\* The user document that findOrCreate creates for a mail address.
CreatedAccount(mail) ==
  [mail |-> mail, pass |-> NoPass, verification |-> Null, verified |-> TRUE]

\* validator.check(data.pass, ...).len(6)
MinPassLen == 6

\* What callers pass as mail and as pass / pass2 / plainPass.
MailInputs == Mails \cup {"nomail"}
PassInputs == {"", "abc", "secret"}

ErrMailInvalid == "E-mail is not valid."
ErrPassRequired == "Password is required."
ErrPassShort == "Password must contain at least 6 characters."
ErrPassMismatch == "Passwords do not match."
ErrMailInUse == "E-mail is already in use."
ErrCreateUser == "Unable to create user account."
ErrCredentials == "Username or password does not match."

VARIABLES
  users,          \* User documents in the store, by _id
  accounts,       \* per _id: mail, pass, verification and verified of the document
  subscriptions,  \* User.subscriptions (Mixed map), as its set of keys
  channels,       \* Channel documents, a sequence indexed by channel id
  lists,          \* List documents: number of records per <<user_id, channel_id>>
  unsettled,      \* history: channels whose lists changed since their last recount
  pending,        \* updateSubscriberCount calls of remove hooks not yet answered
  pc,             \* per handler: the collaborator call it waits on
  op,             \* per handler: the method that was invoked
  self,           \* per handler: the user document the method runs on or has made
  arg,            \* per handler: url, channel_id or state argument
  channel,        \* per handler: the local variable `channel`
  err,            \* per handler: error passed to the caller's callback
  result,         \* per handler: value passed to the caller's callback
  notified,       \* per handler: notification hook fired by this invocation
  faulted,        \* history: a collaborator call of this invocation failed
  created,        \* history: this invocation created a list record
  counted,        \* history: this invocation updated a subscriber counter
  held,           \* history: a list record for (self, channel_id) existed at invocation
  faults          \* number of collaborator calls that have failed so far

vars == <<users, accounts, subscriptions, channels, lists, unsettled, pending,
          pc, op, self, arg, channel, err, result, notified, faulted, created,
          counted, held, faults>>

store == <<users, accounts, subscriptions, channels, lists, unsettled>>

\* ---------------------------------------------------------------- store
Pairs == Users \X ChanIds

Exists(c) == c \in 1..Len(channels)

\* app.list.count({user_id: u, channel_id: c})
CountUserChannel(u, c) == lists[<<u, c>>]

HasList(u, c) == lists[<<u, c>>] > 0

RECURSIVE SumLists(_, _)
SumLists(S, c) ==
  IF S = {} THEN 0
  ELSE LET u == CHOOSE x \in S : TRUE
       IN lists[<<u, c>>] + SumLists(S \ {u}, c)

\* app.list.count({channel_id: c})
CountChannel(c) == SumLists(Users, c)

\* The distinct users that hold a list record for c.
Subscribers(c) == {u \in Users : HasList(u, c)}

\* app.channel.findOne({url: u}): the id of the channel with that url, or Null.
FindOneByUrl(u) ==
  IF \E c \in 1..Len(channels) : channels[c].url = u
  THEN CHOOSE c \in 1..Len(channels) : channels[c].url = u
  ELSE NoChannel

\* app.channel.findById(id)
FindById(id) == IF Exists(id) THEN id ELSE NoChannel

\* A list store without the unique index.
ListInsertUnchecked(u, c) == lists[<<u, c>>] >= 0

\* The unique index of the list store on (user_id, channel_id).
ListInsertAllowed(u, c) == lists[<<u, c>>] = 0

\* app.list.create / app.list.createFromChannel: the state of the list
\* collection after inserting a record for (u, c).
ListInserted(u, c) == [lists EXCEPT ![<<u, c>>] = @ + 1]

\* app.list.remove({user_id: u, channel_id: c})
ListRemoved(u, c) == [lists EXCEPT ![<<u, c>>] = 0]

\* channel.save() of a new channel document: unique index on url.
ChannelSaveAllowed(u) == FindOneByUrl(u) = NoChannel /\ Len(channels) < Cardinality(Urls)

NewChannel(u) == [url |-> u, subscribers |-> 0, items_added |-> NoTime]

\* channel.updateSubscriberCount(): subscribe, subscribeToChannel, unsubscribe
\* and the remove hook all call this one method without an argument, so it
\* is no fixed +1 or -1: the channel's counter is set, in one store
\* operation, from the number of list records that name the channel.
UpdateSubscriberCount(c) == [channels EXCEPT ![c].subscribers = CountChannel(c)]

\* channel.crawl(): either finds nothing new or stamps items_added with a
\* later time.
CrawlTimes(c) ==
  {channels[c].items_added} \cup
  {t \in Times : t > channels[c].items_added}

TypeOK ==
  /\ users \subseteq Users
  /\ \A u \in Users :
       /\ accounts[u].mail \in Mails \cup {Null}
       /\ accounts[u].verification \in {Null, Token}
       /\ accounts[u].verified \in BOOLEAN
  /\ pending \subseteq Pairs
  /\ subscriptions \in [Users -> SUBSET ChanIds]
  /\ Len(channels) <= Cardinality(Urls)
  /\ \A c \in 1..Len(channels) :
       /\ channels[c].url \in Urls
       /\ channels[c].subscribers \in Int
       /\ channels[c].items_added \in Times \cup {NoTime}
  /\ lists \in [Pairs -> Nat]
  /\ unsettled \subseteq ChanIds
  /\ pc \in [Procs -> STRING]
  /\ self \in [Procs -> Users \cup {Null}]
  /\ channel \in [Procs -> ChanIds \cup {NoChannel}]
  /\ notified \in [Procs -> STRING]
  /\ faulted \in [Procs -> BOOLEAN]
  /\ created \in [Procs -> BOOLEAN]
  /\ counted \in [Procs -> BOOLEAN]
  /\ held \in [Procs -> BOOLEAN]
  /\ faults \in 0..MaxFaults

\* No request is being served and no call is in flight.
HandlersIdle ==
  /\ unsettled = {}
  /\ pending = {}
  /\ pc = [p \in Procs |-> "idle"]
  /\ op = [p \in Procs |-> Null]
  /\ self = [p \in Procs |-> Null]
  /\ arg = [p \in Procs |-> Null]
  /\ channel = [p \in Procs |-> NoChannel]
  /\ err = [p \in Procs |-> NoErr]
  /\ result = [p \in Procs |-> NoChannel]
  /\ notified = [p \in Procs |-> "none"]
  /\ faulted = [p \in Procs |-> FALSE]
  /\ created = [p \in Procs |-> FALSE]
  /\ counted = [p \in Procs |-> FALSE]
  /\ held = [p \in Procs |-> FALSE]
  /\ faults = 0

\* The mail address of the user document that the store starts with for u.
MailOf(u) == IF u = "u1" THEN "a@x.com" ELSE "b@x.com"

\* The users exist (created by findOrCreate); nobody has subscribed yet.
Init ==
  /\ users = Users
  /\ accounts = [u \in Users |-> CreatedAccount(MailOf(u))]
  /\ subscriptions = [u \in Users |-> {}]
  /\ channels = <<>>
  /\ lists = [x \in Pairs |-> 0]
  /\ HandlersIdle

\* ---------------------------------------------------------------- handlers
Finished(p) == pc[p] \in {"done", "threw"}

\* No handler stands at its callback: the next collaborator answer may come.
Running == \A q \in Procs : ~Finished(q)

\* A method is invoked on a loaded user document: the handler's locals are
\* fresh.
Invoke(p, method, u, a) ==
  /\ Running
  /\ pc[p] = "idle"
  /\ u \in users
  /\ op' = [op EXCEPT ![p] = method]
  /\ self' = [self EXCEPT ![p] = u]
  /\ arg' = [arg EXCEPT ![p] = a]

\* The handler moves on to wait for its next collaborator call.
Goto(p, next) ==
  /\ pc' = [pc EXCEPT ![p] = next]
  /\ UNCHANGED <<err, result, notified>>

\* The caller's callback is invoked with (e, r) after hook `hook` was fired.
Callback(p, hook, e, r) ==
  /\ pc' = [pc EXCEPT ![p] = "done"]
  /\ notified' = [notified EXCEPT ![p] = hook]
  /\ err' = [err EXCEPT ![p] = e]
  /\ result' = [result EXCEPT ![p] = r]

\* The final callback of subscribe and subscribeToChannel: onSubscribe is
\* fired, then the caller gets (err, channel).
SubscribeDone(p, e, ch) == Callback(p, "onSubscribe", e, ch)

\* An exception escapes a callback: the caller's callback is never invoked.
Throw(p) ==
  /\ pc' = [pc EXCEPT ![p] = "threw"]
  /\ UNCHANGED <<err, result, notified>>

\* The answers a collaborator call may give: TRUE, or FALSE for a storage error.
Answers == IF faults < MaxFaults THEN BOOLEAN ELSE {TRUE}

Fault(p, failed) ==
  /\ faulted' = [faulted EXCEPT ![p] = @ \/ failed]
  /\ faults' = IF failed THEN faults + 1 ELSE faults

\* The finished handler is retired.
Return(p) ==
  /\ Finished(p)
  /\ pc' = [pc EXCEPT ![p] = "idle"]
  /\ op' = [op EXCEPT ![p] = Null]
  /\ self' = [self EXCEPT ![p] = Null]
  /\ arg' = [arg EXCEPT ![p] = Null]
  /\ channel' = [channel EXCEPT ![p] = NoChannel]
  /\ err' = [err EXCEPT ![p] = NoErr]
  /\ result' = [result EXCEPT ![p] = NoChannel]
  /\ notified' = [notified EXCEPT ![p] = "none"]
  /\ faulted' = [faulted EXCEPT ![p] = FALSE]
  /\ created' = [created EXCEPT ![p] = FALSE]
  /\ counted' = [counted EXCEPT ![p] = FALSE]
  /\ held' = [held EXCEPT ![p] = FALSE]
  /\ UNCHANGED <<store, pending, faults>>

\* ------------------------------------------------------------- subscribe
\* subscribe(url, callback) up to the answer of app.parseFeed(url, ...).
Subscribe(p) ==
  \E u \in Users, url \in Urls, ok \in Answers :
    /\ Invoke(p, "subscribe", u, url)
    /\ Fault(p, ~ok)
    /\ IF ok THEN Goto(p, "findOne") ELSE SubscribeDone(p, ParseErr, NoChannel)
    /\ UNCHANGED <<store, pending, channel, created, counted, held>>

\* A subscribe that does not look the channel up and always saves a new one.
SubFindOneNoReuse(p) ==
  /\ Running
  /\ pc[p] = "findOne"
  /\ \E ok \in Answers : Fault(p, ~ok)
  /\ Goto(p, "save")
  /\ UNCHANGED <<store, pending, op, self, arg, channel, created, counted, held>>

\* app.channel.findOne({url: feed.url}, ...): err is not looked at, a failed
\* lookup delivers no doc.
SubFindOne(p) ==
  /\ Running
  /\ pc[p] = "findOne"
  /\ \E ok \in Answers :
       LET doc == IF ok THEN FindOneByUrl(arg[p]) ELSE NoChannel IN
       /\ Fault(p, ~ok)
       /\ IF doc # NoChannel
          THEN /\ channel' = [channel EXCEPT ![p] = doc]
               /\ Goto(p, "crawl")
          ELSE /\ channel' = channel
               /\ Goto(p, "save")
  /\ UNCHANGED <<store, pending, op, self, arg, created, counted, held>>

\* channel.save(function(err) { next(err) })
SubSave(p) ==
  /\ Running
  /\ pc[p] = "save"
  /\ \E ok \in Answers :
       IF ok /\ ChannelSaveAllowed(arg[p])
       THEN /\ channels' = Append(channels, NewChannel(arg[p]))
            /\ channel' = [channel EXCEPT ![p] = Len(channels) + 1]
            /\ Fault(p, FALSE)
            /\ Goto(p, "crawl")
       ELSE /\ UNCHANGED <<channels, channel>>
            /\ Fault(p, ~ok)
            /\ SubscribeDone(p, StorageErr, NoChannel)
  /\ UNCHANGED <<users, accounts, subscriptions, pending, lists, unsettled, op, self, arg,
                 created, counted, held>>

\* channel.crawl(function() { next() })
SubCrawl(p) ==
  /\ Running
  /\ pc[p] = "crawl"
  /\ \E t \in CrawlTimes(channel[p]) :
       channels' = [channels EXCEPT ![channel[p]].items_added = t]
  /\ Goto(p, "createFromChannel")
  /\ UNCHANGED <<users, accounts, subscriptions, pending, lists, unsettled, op, self, arg,
                 channel, faulted, created, counted, held, faults>>

\* createFromChannel whose error is dropped: the series goes on.
SubCreateListNoAbort(p) ==
  /\ Running
  /\ pc[p] = "createFromChannel"
  /\ \E ok \in Answers :
       /\ IF ok /\ ListInsertAllowed(self[p], channel[p])
          THEN /\ lists' = ListInserted(self[p], channel[p])
               /\ unsettled' = unsettled \cup {channel[p]}
               /\ created' = [created EXCEPT ![p] = TRUE]
          ELSE UNCHANGED <<lists, unsettled, created>>
       /\ Fault(p, ~ok)
       /\ Goto(p, "updateSubscriberCount")
  /\ UNCHANGED <<users, accounts, subscriptions, pending, channels, op, self, arg, channel,
                 counted, held>>

\* app.list.createFromChannel(self._id, channel._id, feed.title, ...)
SubCreateList(p) ==
  /\ Running
  /\ pc[p] = "createFromChannel"
  /\ \E ok \in Answers :
       IF ok /\ ListInsertAllowed(self[p], channel[p])
       THEN /\ lists' = ListInserted(self[p], channel[p])
            /\ unsettled' = unsettled \cup {channel[p]}
            /\ created' = [created EXCEPT ![p] = TRUE]
            /\ Fault(p, FALSE)
            /\ Goto(p, "updateSubscriberCount")
       ELSE /\ UNCHANGED <<lists, unsettled, created>>
            /\ Fault(p, ~ok)
            /\ SubscribeDone(p, ErrListCreateFromChannel, channel[p])
  /\ UNCHANGED <<users, accounts, subscriptions, pending, channels, op, self, arg, channel,
                 counted, held>>

\* A subscribe that adds one to the counter instead of updating it.
SubUpdateCountIncrement(p) ==
  /\ Running
  /\ pc[p] = "updateSubscriberCount"
  /\ \E ok \in Answers :
       IF ok
       THEN /\ channels' = [channels EXCEPT ![channel[p]].subscribers = @ + 1]
            /\ unsettled' = unsettled \ {channel[p]}
            /\ counted' = [counted EXCEPT ![p] = TRUE]
            /\ Fault(p, FALSE)
            /\ SubscribeDone(p, NoErr, channel[p])
       ELSE /\ UNCHANGED <<channels, unsettled, counted>>
            /\ Fault(p, TRUE)
            /\ SubscribeDone(p, ErrIncrement, channel[p])
  /\ UNCHANGED <<users, accounts, subscriptions, pending, lists, op, self, arg,
                 channel, created, held>>

\* channel.updateSubscriberCount(...), then the final callback.
SubUpdateCount(p) ==
  /\ Running
  /\ pc[p] = "updateSubscriberCount"
  /\ \E ok \in Answers :
       IF ok
       THEN /\ channels' = UpdateSubscriberCount(channel[p])
            /\ unsettled' = unsettled \ {channel[p]}
            /\ counted' = [counted EXCEPT ![p] = TRUE]
            /\ Fault(p, FALSE)
            /\ SubscribeDone(p, NoErr, channel[p])
       ELSE /\ UNCHANGED <<channels, unsettled, counted>>
            /\ Fault(p, TRUE)
            /\ SubscribeDone(p, ErrIncrement, channel[p])
  /\ UNCHANGED <<users, accounts, subscriptions, pending, lists, op, self, arg, channel, created,
                 held>>

\* ---------------------------------------------------- subscribeToChannel
\* subscribeToChannel(channel_id, callback) up to the answer of
\* app.channel.findById(channel_id, ...): channel = ch; next(err).
SubscribeToChannel(p) ==
  \E u \in Users, id \in ChanIds, ok \in Answers :
    /\ Invoke(p, "subscribeToChannel", u, id)
    /\ held' = [held EXCEPT ![p] = HasList(u, id)]
    /\ Fault(p, ~ok)
    /\ IF ok
       THEN /\ channel' = [channel EXCEPT ![p] = FindById(id)]
            /\ Goto(p, "count")
       ELSE /\ channel' = channel
            /\ SubscribeDone(p, StorageErr, NoChannel)
    /\ UNCHANGED <<store, pending, created, counted>>

\* The series without the check that the user is not yet subscribed.
StcCountUnchecked(p) ==
  /\ Running
  /\ pc[p] = "count"
  /\ \E ok \in Answers :
       /\ Fault(p, ~ok)
       /\ IF channel[p] = NoChannel THEN Throw(p) ELSE Goto(p, "create")
  /\ UNCHANGED <<store, pending, op, self, arg, channel, created, counted, held>>

\* app.list.count({user_id, channel_id}, ...): err is not looked at, a failed
\* count delivers no number.  When the count is 0 the next task starts by
\* reading channel.title.
StcCount(p) ==
  /\ Running
  /\ pc[p] = "count"
  /\ \E ok \in Answers :
       LET count == IF ok THEN CountUserChannel(self[p], arg[p]) ELSE 0 IN
       /\ Fault(p, ~ok)
       /\ IF count # 0
          THEN SubscribeDone(p, ErrAlreadySubscribed, channel[p])
          ELSE IF channel[p] = NoChannel THEN Throw(p) ELSE Goto(p, "create")
  /\ UNCHANGED <<store, pending, op, self, arg, channel, created, counted, held>>

\* app.list.create({type: "channel", ..., channel_id: channel_id}, ...)
StcCreate(p) ==
  /\ Running
  /\ pc[p] = "create"
  /\ \E ok \in Answers :
       IF ok /\ ListInsertAllowed(self[p], arg[p])
       THEN /\ lists' = ListInserted(self[p], arg[p])
            /\ unsettled' = unsettled \cup {arg[p]}
            /\ created' = [created EXCEPT ![p] = TRUE]
            /\ Fault(p, FALSE)
            /\ Goto(p, "stcUpdateSubscriberCount")
       ELSE /\ UNCHANGED <<lists, unsettled, created>>
            /\ Fault(p, ~ok)
            /\ SubscribeDone(p, ErrListCreate, channel[p])
  /\ UNCHANGED <<users, accounts, subscriptions, pending, channels, op, self, arg, channel,
                 counted, held>>

\* channel.updateSubscriberCount(...), then the final callback.
StcUpdateCount(p) ==
  /\ Running
  /\ pc[p] = "stcUpdateSubscriberCount"
  /\ \E ok \in Answers :
       IF ok
       THEN /\ channels' = UpdateSubscriberCount(channel[p])
            /\ unsettled' = unsettled \ {channel[p]}
            /\ counted' = [counted EXCEPT ![p] = TRUE]
            /\ Fault(p, FALSE)
            /\ SubscribeDone(p, NoErr, channel[p])
       ELSE /\ UNCHANGED <<channels, unsettled, counted>>
            /\ Fault(p, TRUE)
            /\ SubscribeDone(p, ErrIncrement, channel[p])
  /\ UNCHANGED <<users, accounts, subscriptions, pending, lists, op, self, arg, channel, created,
                 held>>

\* ----------------------------------------------------------- unsubscribe
\* unsubscribe(channel_id, callback) up to the answer of
\* app.list.remove({user_id, channel_id}, ...): err is not looked at.
Unsubscribe(p) ==
  \E u \in Users, id \in ChanIds, ok \in Answers :
    /\ Invoke(p, "unsubscribe", u, id)
    /\ held' = [held EXCEPT ![p] = HasList(u, id)]
    /\ Fault(p, ~ok)
    /\ IF ok
       THEN /\ lists' = ListRemoved(u, id)
            /\ unsettled' = IF HasList(u, id) THEN unsettled \cup {id} ELSE unsettled
       ELSE UNCHANGED <<lists, unsettled>>
    /\ Goto(p, "findById")
    /\ UNCHANGED <<users, accounts, subscriptions, pending, channels, channel, created, counted>>

\* app.channel.findById(channel_id, function(err, channel) {...}): the
\* callback calls channel.updateSubscriberCount whatever it was given.
UnsubFindById(p) ==
  /\ Running
  /\ pc[p] = "findById"
  /\ \E ok \in Answers :
       LET ch == IF ok THEN FindById(arg[p]) ELSE NoChannel IN
       /\ Fault(p, ~ok)
       /\ channel' = [channel EXCEPT ![p] = ch]
       /\ IF ch = NoChannel THEN Throw(p) ELSE Goto(p, "unsubUpdateSubscriberCount")
  /\ UNCHANGED <<store, pending, op, self, arg, created, counted, held>>

\* An unsubscribe that takes one off the counter instead of updating it.
UnsubUpdateCountDecrement(p) ==
  /\ Running
  /\ pc[p] = "unsubUpdateSubscriberCount"
  /\ \E ok \in Answers :
       /\ Fault(p, ~ok)
       /\ IF ok
          THEN /\ channels' = [channels EXCEPT ![channel[p]].subscribers = @ - 1]
               /\ unsettled' = unsettled \ {channel[p]}
               /\ counted' = [counted EXCEPT ![p] = TRUE]
          ELSE UNCHANGED <<channels, unsettled, counted>>
  /\ Callback(p, "onUnSubscribe", NoErr, NoChannel)
  /\ UNCHANGED <<users, accounts, subscriptions, pending, lists, op, self, arg, channel, created,
                 held>>

\* channel.updateSubscriberCount(function(err) {...}): err is not looked at;
\* onUnSubscribe is fired and the caller's callback gets no error.
UnsubUpdateCount(p) ==
  /\ Running
  /\ pc[p] = "unsubUpdateSubscriberCount"
  /\ \E ok \in Answers :
       /\ Fault(p, ~ok)
       /\ IF ok
          THEN /\ channels' = UpdateSubscriberCount(channel[p])
               /\ unsettled' = unsettled \ {channel[p]}
               /\ counted' = [counted EXCEPT ![p] = TRUE]
          ELSE UNCHANGED <<channels, unsettled, counted>>
  /\ Callback(p, "onUnSubscribe", NoErr, NoChannel)
  /\ UNCHANGED <<users, accounts, subscriptions, pending, lists, op, self, arg, channel, created,
                 held>>

\* ----------------------------------------------------- getChannelUpdates
\* new Date(v) compared with a number: the time value of the date, which for
\* a whole number of milliseconds is that number.
NewDate(v) == v

\* results[i].items_added ? results[i].items_added.getTime() : 0
TimeOf(c) == IF channels[c].items_added = NoTime THEN 0 ELSE channels[c].items_added

\* app.channel.find({_id: {$in: ids}}) for the keys of state.
FindIn(ids) == {c \in ids : Exists(c)}

\* The channels for which time > new Date(state[_id]).
Dirty(state) == {c \in FindIn(DOMAIN state) : TimeOf(c) > NewDate(state[c])}

\* The entries pushed to updates; items_added.getTime() of a dirty channel.
Updates(state) ==
  {[_id |-> c, items_added |-> channels[c].items_added] : c \in Dirty(state)}

\* getChannelUpdates(state, callback) without a state: callback([]).
GetChannelUpdatesNoState(p) ==
  \E u \in Users :
    /\ Invoke(p, "getChannelUpdates", u, NoState)
    /\ Callback(p, "none", NoErr, {})
    /\ UNCHANGED <<store, pending, channel, faulted, created, counted, held, faults>>

\* A getChannelUpdates that saves the channels it reported with their
\* items_added taken off, so that they are not reported again.
GetChannelUpdatesMarking(p) ==
  \E u \in Users, state \in StateMaps, ok \in Answers :
    /\ Invoke(p, "getChannelUpdates", u, GivenState(state))
    /\ Fault(p, ~ok)
    /\ IF ~ok \/ (\E c \in Dirty(state) : channels[c].items_added = NoTime)
       THEN /\ Throw(p)
            /\ UNCHANGED channels
       ELSE /\ Callback(p, "none", NoErr, Updates(state))
            /\ channels' = [c \in 1..Len(channels) |->
                             IF c \in Dirty(state)
                             THEN [channels[c] EXCEPT !.items_added = NoTime]
                             ELSE channels[c]]
    /\ UNCHANGED <<users, accounts, subscriptions, pending, lists, unsettled, channel, created,
                   counted, held>>

\* getChannelUpdates(state, callback) with a state, up to the answer of
\* app.channel.find: a find error is thrown, and so is the TypeError of
\* items_added.getTime() on a dirty channel without items_added.
GetChannelUpdates(p) ==
  \E u \in Users, state \in StateMaps, ok \in Answers :
    /\ Invoke(p, "getChannelUpdates", u, GivenState(state))
    /\ Fault(p, ~ok)
    /\ IF ~ok \/ (\E c \in Dirty(state) : channels[c].items_added = NoTime)
       THEN Throw(p)
       ELSE Callback(p, "none", NoErr, Updates(state))
    /\ UNCHANGED <<store, pending, channel, created, counted, held>>

\* ------------------------------------------------- post('remove') hook
\* this.subscriptions' keys that name a channel document.
SubscribedChannels(u) == {c \in subscriptions[u] : Exists(c)}

\* The user document is removed and the hook runs up to the answer of
\* app.state.remove({user: self._id}, ...): next(err), and the series has no
\* final callback.
DeleteAccount(p) ==
  \E u \in Users, ok \in Answers :
    /\ Invoke(p, "deleteAccount", u, Null)
    /\ users' = users \ {u}
    /\ Fault(p, ~ok)
    /\ IF ok
       THEN Goto(p, "subscribedChannels")
       ELSE /\ pc' = [pc EXCEPT ![p] = "done"]
            /\ err' = [err EXCEPT ![p] = StorageErr]
            /\ UNCHANGED <<result, notified>>
    /\ UNCHANGED <<accounts, subscriptions, pending, channels, lists, unsettled, channel, created,
                   counted, held>>

\* self.subscribedChannels(function(channels) {...}): a find error is thrown;
\* else channels[i].updateSubscriberCount(function() {}) is called on every
\* channel found and, without waiting for any of them, next() goes on to
\* fire onAccountDelete.
DelSubscribedChannels(p) ==
  /\ Running
  /\ pc[p] = "subscribedChannels"
  /\ \E ok \in Answers :
       /\ Fault(p, ~ok)
       /\ IF ok
          THEN /\ pending' = pending \cup
                              {<<self[p], c>> : c \in SubscribedChannels(self[p])}
               /\ pc' = [pc EXCEPT ![p] = "done"]
               /\ notified' = [notified EXCEPT ![p] = "onAccountDelete"]
               /\ UNCHANGED <<err, result>>
          ELSE /\ Throw(p)
               /\ UNCHANGED pending
  /\ UNCHANGED <<store, op, self, arg, channel, created, counted, held>>

\* The store answers an updateSubscriberCount that a remove hook had issued;
\* the empty callback function() {} drops the answer.
HookUpdateCount ==
  /\ Running
  /\ \E x \in pending, ok \in Answers :
       /\ pending' = pending \ {x}
       /\ faults' = IF ok THEN faults ELSE faults + 1
       /\ IF ok
          THEN /\ channels' = UpdateSubscriberCount(x[2])
               /\ unsettled' = unsettled \ {x[2]}
          ELSE UNCHANGED <<channels, unsettled>>
  /\ UNCHANGED <<users, accounts, subscriptions, lists, pc, op, self, arg,
                 channel, err, result, notified, faulted, created, counted, held>>

\* --------------------------------------------------------------- accounts
\* validator.check(data.mail, ...).isEmail()
IsEmail(m) == m \in Mails

\* The first message of the validator for the data of a signup, NoErr when
\* every check passes.
SignupError(mail, pass, pass2) ==
  IF ~IsEmail(mail) THEN ErrMailInvalid
  ELSE IF pass = "" THEN ErrPassRequired
  ELSE IF Len(pass) < MinPassLen THEN ErrPassShort
  ELSE IF pass # pass2 THEN ErrPassMismatch
  ELSE NoErr

\* app.user.findOne({mail: mail}): the _id of the document, or Null.
FindByMail(mail) ==
  IF \E u \in users : accounts[u].mail = mail
  THEN CHOOSE u \in users : accounts[u].mail = mail
  ELSE Null

\* this.findOne({mail: mail, verified: true})
FindVerifiedByMail(mail) ==
  IF \E u \in users : accounts[u].mail = mail /\ accounts[u].verified
  THEN CHOOSE u \in users : accounts[u].mail = mail /\ accounts[u].verified
  ELSE Null

\* A user collection without the unique index on mail.
MailFreeUnchecked(mail) == mail \in Mails

\* mail: {type: String, index: {unique: true}}: a document with this mail can
\* be inserted.
MailFree(mail) == FindByMail(mail) = Null

\* new mongoose.Types.ObjectId(): an _id that no stored document has.
FreshId == CHOOSE id \in Users : id \notin users

\* A static method of the model is invoked: there is no user document yet.
InvokeStatic(p, method, a) ==
  /\ Running
  /\ pc[p] = "idle"
  /\ op' = [op EXCEPT ![p] = method]
  /\ arg' = [arg EXCEPT ![p] = a]

\* signup(data, callback) up to the answer of app.user.findOne({mail}): a
\* validator error is called back at once; a failed lookup delivers no user.
Signup(p) ==
  \E mail \in MailInputs, pass \in PassInputs, pass2 \in PassInputs,
     ok \in Answers :
    /\ InvokeStatic(p, "signup", [mail |-> mail, pass |-> pass])
    /\ IF SignupError(mail, pass, pass2) # NoErr
       THEN /\ Callback(p, "none", SignupError(mail, pass, pass2), Null)
            /\ UNCHANGED <<faulted, faults>>
       ELSE /\ Fault(p, ~ok)
            /\ IF ok /\ FindByMail(mail) # Null
               THEN Callback(p, "none", ErrMailInUse, Null)
               ELSE Goto(p, "signupSave")
    /\ UNCHANGED <<store, pending, self, channel, created, counted, held>>

\* user.save(function(err) {...}) of the new, unverified user document.
SignupSave(p) ==
  /\ Running
  /\ pc[p] = "signupSave"
  /\ \E ok \in Answers :
       /\ Fault(p, ~ok)
       /\ IF ok /\ MailFree(arg[p].mail)
          THEN /\ users' = users \cup {FreshId}
               /\ accounts' = [accounts EXCEPT ![FreshId] =
                                 [mail |-> arg[p].mail,
                                  pass |-> HashPassword(FreshId, arg[p].pass),
                                  verification |-> Token,
                                  verified |-> FALSE]]
               /\ self' = [self EXCEPT ![p] = FreshId]
               /\ Goto(p, "createUserDefaults")
          ELSE /\ Callback(p, "none", ErrCreateUser, Null)
               /\ UNCHANGED <<users, accounts, self>>
  /\ UNCHANGED <<subscriptions, channels, lists, unsettled, pending, op, arg,
                 channel, created, counted, held>>

\* app.list.createUserDefaults(user, function(err) {...}): err is not looked
\* at; the mail is sent, onSignup is fired and the caller gets the user.
SignupDefaults(p) ==
  /\ Running
  /\ pc[p] = "createUserDefaults"
  /\ \E ok \in Answers : Fault(p, ~ok)
  /\ Callback(p, "onSignup", NoErr, self[p])
  /\ UNCHANGED <<store, pending, op, self, arg, channel, created, counted, held>>

\* findOrCreate(mail, callback) up to the answer of app.user.findOne({mail}).
FindOrCreate(p) ==
  \E mail \in Mails, ok \in Answers :
    LET user == IF ok THEN FindByMail(mail) ELSE Null IN
    /\ InvokeStatic(p, "findOrCreate", [mail |-> mail])
    /\ Fault(p, ~ok)
    /\ IF user # Null THEN Callback(p, "none", NoErr, user) ELSE Goto(p, "create")
    /\ UNCHANGED <<store, pending, self, channel, created, counted, held>>

\* app.user.create({...}, function(err, user) {...}): the callback reads
\* user.mail before it looks at err, a TypeError when the create failed.
FocCreate(p) ==
  /\ Running
  /\ pc[p] = "create" /\ op[p] = "findOrCreate"
  /\ \E ok \in Answers :
       /\ Fault(p, ~ok)
       /\ IF ok /\ MailFree(arg[p].mail)
          THEN /\ users' = users \cup {FreshId}
               /\ accounts' = [accounts EXCEPT ![FreshId] = CreatedAccount(arg[p].mail)]
               /\ self' = [self EXCEPT ![p] = FreshId]
               /\ Callback(p, "none", NoErr, FreshId)
          ELSE /\ Throw(p)
               /\ UNCHANGED <<users, accounts, self>>
  /\ UNCHANGED <<subscriptions, channels, lists, unsettled, pending, op, arg,
                 channel, created, counted, held>>

\* activate(callback): this.verified = true, this.save; onActivate is fired
\* and the caller gets the error of the save.
Activate(p) ==
  \E u \in Users, ok \in Answers :
    /\ Invoke(p, "activate", u, Null)
    /\ Fault(p, ~ok)
    /\ accounts' = IF ok THEN [accounts EXCEPT ![u].verified = TRUE] ELSE accounts
    /\ Callback(p, "onActivate", IF ok THEN NoErr ELSE StorageErr, Null)
    /\ UNCHANGED <<users, subscriptions, channels, lists, unsettled, pending,
                   channel, created, counted, held>>

\* An authenticate that looks the user up by mail alone.
AuthenticateUnverified(p) ==
  \E mail \in Mails, plainPass \in PassInputs, ok \in Answers :
    LET user == IF ok THEN FindByMail(mail) ELSE Null IN
    /\ InvokeStatic(p, "authenticate", [mail |-> mail, pass |-> plainPass])
    /\ Fault(p, ~ok)
    /\ IF user = Null \/ ~(accounts[user].pass = HashPassword(user, plainPass))
       THEN Callback(p, "none", ErrCredentials, Null)
       ELSE Callback(p, "none", NoErr, user)
    /\ UNCHANGED <<store, pending, self, channel, created, counted, held>>

\* authenticate(mail, plainPass, callback): one lookup, then the comparison
\* of user.pass with the hash of the given password.
Authenticate(p) ==
  \E mail \in Mails, plainPass \in PassInputs, ok \in Answers :
    LET user == IF ok THEN FindVerifiedByMail(mail) ELSE Null IN
    /\ InvokeStatic(p, "authenticate", [mail |-> mail, pass |-> plainPass])
    /\ Fault(p, ~ok)
    /\ IF user = Null \/ ~(accounts[user].pass = HashPassword(user, plainPass))
       THEN Callback(p, "none", ErrCredentials, Null)
       ELSE Callback(p, "none", NoErr, user)
    /\ UNCHANGED <<store, pending, self, channel, created, counted, held>>

\* ------------------------------------------------------- specifications
\* A handler serving the subscription and account requests.
Workflow(p) ==
  \/ Subscribe(p)
  \/ SubFindOne(p)
  \/ SubSave(p)
  \/ SubCrawl(p)
  \/ SubCreateList(p)
  \/ SubUpdateCount(p)
  \/ SubscribeToChannel(p)
  \/ StcCount(p)
  \/ StcCreate(p)
  \/ StcUpdateCount(p)
  \/ Unsubscribe(p)
  \/ UnsubFindById(p)
  \/ UnsubUpdateCount(p)
  \/ DeleteAccount(p)
  \/ DelSubscribedChannels(p)
  \/ Return(p)

\* A handler serving the poll requests.
Poll(p) ==
  \/ GetChannelUpdatesNoState(p)
  \/ GetChannelUpdates(p)
  \/ Return(p)

\* Spec: the handlers of Procs run workflows concurrently.
Next == \E p \in Procs : Workflow(p)

Spec == Init /\ [][Next]_vars

\* SyncSpec: one handler runs workflows while another one polls.
SyncNext == Workflow("p1") \/ Poll("p2")

SyncSpec == Init /\ [][SyncNext]_vars

\* RemoveSpec: one handler runs workflows on a store in which channel 1 has
\* the users of S as subscribers and User.subscriptions, which no method of
\* this file writes, has been kept in step with the list records.
RemoveInit ==
  \E S \in SUBSET Users :
    /\ users = Users
    /\ accounts = [u \in Users |-> CreatedAccount(MailOf(u))]
    /\ subscriptions = [u \in Users |-> IF u \in S THEN {1} ELSE {}]
    /\ channels = <<[url |-> "a", subscribers |-> Cardinality(S),
                     items_added |-> NoTime]>>
    /\ lists = [x \in Pairs |-> IF x[1] \in S /\ x[2] = 1 THEN 1 ELSE 0]
    /\ HandlersIdle

RemoveNext == Workflow("p1") \/ HookUpdateCount

RemoveSpec == RemoveInit /\ [][RemoveNext]_vars

\* A handler serving the account requests.
Account(p) ==
  \/ Signup(p)
  \/ SignupSave(p)
  \/ SignupDefaults(p)
  \/ FindOrCreate(p)
  \/ FocCreate(p)
  \/ Activate(p)
  \/ Authenticate(p)
  \/ Return(p)

\* AccountSpec: the handlers of Procs serve account requests concurrently on
\* a store that starts without users.
AccountInit ==
  /\ users = {}
  /\ accounts = [u \in Users |-> NoAccount]
  /\ subscriptions = [u \in Users |-> {}]
  /\ channels = <<>>
  /\ lists = [x \in Pairs |-> 0]
  /\ HandlersIdle

AccountNext == \E p \in Procs : Account(p)

AccountSpec == AccountInit /\ [][AccountNext]_vars
\* ------------------------------------------------------------------ claims
Done(p, method) == pc[p] = "done" /\ op[p] = method

C2_OneRecordPerPair == \A x \in Pairs : lists[x] <= 1

\* A subscribe for a url the user already follows was turned down by the list
\* store although no collaborator failed.
C2_Witness ==
  \E p \in Procs :
    /\ Done(p, "subscribe")
    /\ err[p] = ErrListCreateFromChannel
    /\ ~faulted[p]
    /\ lists[<<self[p], channel[p]>>] = 1

\* C3: a subscribeToChannel whose count is answered while a list record for
\* (user, channel) exists ends with the already-subscribed error, that step
\* changes neither lists nor counters, and a call that ended with this error
\* has created no list record and updated no counter.
C3_AlreadySubscribed ==
  /\ [](\A p \in Procs :
          Done(p, "subscribeToChannel") /\ err[p] = ErrAlreadySubscribed
            => ~created[p] /\ ~counted[p])
  /\ [][\A p \in Procs :
          (pc[p] = "count" /\ pc'[p] # "count" /\ ~faulted'[p]
             /\ HasList(self[p], arg[p]))
            => /\ pc'[p] = "done"
               /\ err'[p] = ErrAlreadySubscribed
               /\ lists' = lists
               /\ channels' = channels]_vars

\* A second subscribeToChannel of a subscribed user has been turned down.
C3_Witness ==
  \E p \in Procs :
    /\ Done(p, "subscribeToChannel")
    /\ held[p]
    /\ err[p] = ErrAlreadySubscribed
    /\ channels[arg[p]].subscribers = 1

\* C4 as stated: an unsubscribe for a pair that has no list record calls back
\* without an error, and none of its steps changes a list record or a
\* subscriber counter.
C4_UnsubscribeIdempotent ==
  /\ [](\A p \in Procs :
          (Finished(p) /\ op[p] = "unsubscribe" /\ ~held[p])
            => pc[p] = "done" /\ err[p] = NoErr)
  /\ [][\A p \in Procs :
          (op'[p] = "unsubscribe" /\ ~held'[p] /\ pc'[p] # pc[p])
            => lists' = lists /\ channels' = channels]_vars

\* C5 as stated: an unsubscribe whose channel lookup finds no channel document
\* still completes: the list record is gone and the caller is called back
\* without an error.
C5_UnsubscribeMissingChannel ==
  \A p \in Procs :
    (op[p] = "unsubscribe" /\ Finished(p) /\ ~faulted[p] /\ channel[p] = NoChannel)
      => /\ pc[p] = "done"
         /\ err[p] = NoErr
         /\ ~HasList(self[p], arg[p])

\* C6 as stated: onSubscribe is fired only by an invocation that succeeded.
C6_NotifyOnlyOnSuccess ==
  \A p \in Procs : notified[p] = "onSubscribe" => err[p] = NoErr

\* The order of the collaborator calls of subscribe.
SubscribeOrder ==
  {<<"idle", "findOne">>, <<"idle", "done">>,
   <<"findOne", "save">>, <<"findOne", "crawl">>,
   <<"save", "crawl">>, <<"save", "done">>,
   <<"crawl", "createFromChannel">>,
   <<"createFromChannel", "updateSubscriberCount">>,
   <<"createFromChannel", "done">>,
   <<"updateSubscriberCount", "done">>}

ErrChannelNotFound == "ChannelNotFound"

\* C8 as stated: a subscribeToChannel whose lookup finds no channel document
\* calls back with the channel-not-found error, having created no list record
\* and updated no counter.
C8_ChannelNotFound ==
  \A p \in Procs :
    (op[p] = "subscribeToChannel" /\ Finished(p) /\ ~faulted[p]
       /\ channel[p] = NoChannel)
      => /\ pc[p] = "done"
         /\ err[p] = ErrChannelNotFound
         /\ ~created[p] /\ ~counted[p]

\* C9 as stated: a poll with a state calls back with an entry for channel c
\* exactly when c is a key of state and the channel's items_added time (0 when
\* unset) is greater than state[c].
C9_UpdatesExactlyDirty ==
  \A p \in Procs :
    (op[p] = "getChannelUpdates" /\ Finished(p) /\ ~faulted[p] /\ arg[p].given)
      => /\ pc[p] = "done"
         /\ \A c \in 1..Len(channels) :
              (\E e \in result[p] : e._id = c)
                <=> (c \in DOMAIN arg[p].map /\ TimeOf(c) > arg[p].map[c])

\* C10 as stated: a poll never calls back with an entry for a channel the
\* polling user holds no list record for.
C10_OnlySubscribedChannels ==
  \A p \in Procs :
    Done(p, "getChannelUpdates")
      => \A e \in result[p] : HasList(self[p], e._id)

\* C11: getChannelUpdates only reads: the step that serves a poll leaves the
\* user, channel and list documents as they were, and what it calls back with
\* is what a further poll with the same state gets from the store it left
\* behind (the empty list when no state is given).
C11_PollIsPureRead ==
  /\ [](\A p \in Procs :
          Done(p, "getChannelUpdates")
            => result[p] = IF arg[p].given THEN Updates(arg[p].map) ELSE {})
  /\ [][\A p \in Procs :
          (op'[p] = "getChannelUpdates" /\ pc'[p] # pc[p] /\ pc[p] = "idle")
            => store' = store]_vars

\* A poll has reported a channel that has a subscriber.
C11_Witness ==
  \E p \in Procs :
    /\ Done(p, "getChannelUpdates")
    /\ arg[p].given
    /\ \E e \in result[p] :
         /\ channels[e._id].items_added = e.items_added
         /\ HasList(self[p], e._id)

\* C12 as stated: once the remove hook of user U has run to its notification,
\* no list record of U is left, and every channel whose counter is up to date
\* counts the other users' records only.
C12_DeleteAccountCascades ==
  \A p \in Procs :
    (Done(p, "deleteAccount") /\ notified[p] = "onAccountDelete")
      => \A c \in ChanIds :
           /\ ~HasList(self[p], c)
           /\ (Exists(c) /\ c \notin unsettled)
                => channels[c].subscribers = Cardinality(Subscribers(c) \ {self[p]})

C14_AuthenticateGated ==
  \A p \in Procs :
    (op[p] = "authenticate" /\ Finished(p))
      => /\ pc[p] = "done"
         /\ IF err[p] = NoErr
            THEN /\ result[p] \in users
                 /\ accounts[result[p]].mail = arg[p].mail
                 /\ accounts[result[p]].verified
                 /\ accounts[result[p]].pass = HashPassword(result[p], arg[p].pass)
            ELSE err[p] = ErrCredentials /\ result[p] = Null

\* A user who signed up and was activated has authenticated.
C14_Witness ==
  \E p \in Procs :
    /\ Done(p, "authenticate")
    /\ err[p] = NoErr
    /\ accounts[result[p]].verification = Token

\* The messages of the validator of signup.
ValidatorErrors == {ErrMailInvalid, ErrPassRequired, ErrPassShort, ErrPassMismatch}

\* C15: no two stored users have the same mail, whatever the interleaving of
\* signup and findOrCreate; a signup with valid data whose lookup is answered
\* while a user with the mail exists ends at once with the mail-in-use error
\* and stores nothing, and a signup that ended with an error has made no user.
C15_OneUserPerMail ==
  /\ [](\A u, v \in users : accounts[u].mail = accounts[v].mail => u = v)
  /\ [](\A p \in Procs :
          (Done(p, "signup") /\ err[p] # NoErr) => self[p] = Null)
  /\ [][\A p \in Procs :
          (pc[p] = "idle" /\ op'[p] = "signup" /\ ~faulted'[p]
             /\ err'[p] \notin ValidatorErrors
             /\ FindByMail(arg'[p].mail) # Null)
            => /\ pc'[p] = "done"
               /\ err'[p] = ErrMailInUse
               /\ users' = users
               /\ accounts' = accounts]_vars

\* Two requests raced for one mail: the signup found no user, the other
\* request stored its user first, and the save of the signup was turned down.
C15_Witness ==
  \E p \in Procs :
    /\ Done(p, "signup")
    /\ err[p] = ErrCreateUser
    /\ ~faulted[p]
    /\ FindByMail(arg[p].mail) # Null

\* C16 as stated: a stored user is verified exactly when it has no
\* verification code.
C16_VerifiedIffNoVerification ==
  \A u \in users : accounts[u].verified <=> accounts[u].verification = Null

Quiescent == \A p \in Procs : pc[p] \in {"idle", "done", "threw"}

\* C18 as stated: whenever no call is in progress, channel c is a key of the
\* subscriptions map of a stored user u exactly when a list record for (u, c)
\* exists.
C18_SubscriptionsMatchRecords ==
  Quiescent
    => \A u \in users : \A c \in ChanIds : c \in subscriptions[u] <=> HasList(u, c)

C20_CallbackInvoked ==
  \A p \in Procs :
    op[p] \in {"subscribe", "subscribeToChannel", "unsubscribe"} => pc[p] # "threw"
====
